---- MODULE Spec2Model ----
(***************************************************************************)
(* Model of mcp-svelte-docs: the OpenAIRetrieval class                     *)
(* (src/src/openai-retrieval-fixed.ts), the two Svelte5DocsServer variants *)
(* (src/unnamed/part_000) and the test-retrieval script                    *)
(* (src/unnamed/part_001).                                                 *)
(*                                                                         *)
(* Text is modelled as a sequence of string fragments; concatenation of    *)
(* text is concatenation of sequences.  The provider (OpenAI) and the      *)
(* documentation host are the environment: every request is answered with  *)
(* an outcome chosen from Outcomes.                                        *)
(***************************************************************************)
EXTENDS Integers, Sequences, FiniteSets, TLC

\* ------------------------------------------------------------------ bounds
\* Number of operations (calls / requests) performed in one behaviour.
MaxOps == 4

\* ------------------------------------------------------- program constants
VECTOR_STORE_NAME == "svelte5-documentation"
DOCS_URL == "https://svelte.dev/llms-full.txt"
\* `private vectorStoreId: string | null = null`; store ids are 1, 2, ...
NULL == 0

\* ------------------------------------------------------------- environment
\* Outcome of one HTTP request: 200 = success, 0 = no response at all
\* (network failure), anything else = that HTTP status.
Outcomes == {200, 401, 403, 404, 500, 0}
Failures == Outcomes \ {200}

\* The requests the program can issue, in the order initialize() issues them.
Steps == {"models", "probe", "list", "create", "download", "upload",
          "attach", "search", "files"}

\* A plan answers every request of one operation: all succeed except the
\* request failStep, which is answered with outcome o.  (The first failing
\* request ends the operation, so one failure point per operation is general.)
Plan(failStep, o) == [s \in Steps |-> IF s = failStep THEN o ELSE 200]

\* The provider's vector stores before the process starts.
InitialStores ==
  { <<>>,
    << [id |-> 1, name |-> "other-store"] >>,
    << [id |-> 1, name |-> VECTOR_STORE_NAME] >>,
    << [id |-> 1, name |-> "other-store"], [id |-> 2, name |-> VECTOR_STORE_NAME] >>,
    << [id |-> 1, name |-> VECTOR_STORE_NAME], [id |-> 2, name |-> VECTOR_STORE_NAME] >> }

\* ------------------------------------------------------------------ errors
NoError == [cls |-> "none", code |-> "none", status |-> 0, message |-> <<>>]

McpError(code, message) ==
  [cls |-> "McpError", code |-> code, status |-> 0, message |-> message]

\* The error axios rejects with for a request answered with outcome o;
\* status is error.response?.status (0 when there is no response).
AxiosError(o) ==
  [cls |-> "AxiosError", code |-> "none", status |-> o,
   message |-> IF o = 0 THEN <<"Network Error">>
               ELSE <<"Request failed with status code ", ToString(o)>>]

\* The error the OpenAI SDK rejects with; status is error.status.
APIError(o) ==
  [cls |-> "APIError", code |-> "none", status |-> o,
   message |-> IF o = 0 THEN <<"Connection error.">>
               ELSE <<ToString(o), " status code (no body)">>]

TypeError(message) ==
  [cls |-> "TypeError", code |-> "none", status |-> 0, message |-> message]

\* `${error}`: Error.prototype.toString
ErrString(e) == <<e.cls, ": ">> \o e.message

\* `${error.message || error}`
ErrText(e) == IF e.message # <<>> THEN e.message ELSE ErrString(e)

INVALID_KEY_MSG == <<"Invalid OpenAI API key. Please check your API key and try again.">>

\* ------------------------------------------------------- OpenAIRetrieval
\* catch block of validateApiKey
validateApiKeyCatch(error) ==
  IF error.status = 401 THEN McpError("InvalidParams", INVALID_KEY_MSG)
  ELSE IF error.status = 403 THEN
    McpError("InvalidParams",
      <<"Your OpenAI account does not have permission to use this API. Please check your account permissions.">>)
  ELSE McpError("InternalError",
      <<"Failed to validate OpenAI API key: ">> \o ErrText(error))

validateApiKey(plan) ==
  IF plan["models"] = 200 THEN NoError
  ELSE validateApiKeyCatch(APIError(plan["models"]))

\* catch block of checkRetrievalApiAccess
checkRetrievalApiAccessCatch(error) ==
  IF error.status = 401 THEN McpError("InvalidParams", INVALID_KEY_MSG)
  ELSE IF error.status = 403 THEN
    McpError("InvalidParams",
      <<"Your OpenAI account does not have permission to use the Retrieval API. This feature may require a specific account tier or beta access.">>)
  ELSE IF error.status = 404 THEN
    McpError("InvalidParams",
      <<"The Retrieval API endpoint was not found. This feature may not be available yet for your account or is in beta.">>)
  ELSE McpError("InternalError",
      <<"Failed to access Retrieval API: ">> \o ErrText(error))

checkRetrievalApiAccess(plan) ==
  IF plan["probe"] = 200 THEN NoError
  ELSE checkRetrievalApiAccessCatch(AxiosError(plan["probe"]))

\* vectorStores.data.find(store => store.name === VECTOR_STORE_NAME):
\* the id of the first store of that name, NULL when there is none.
RECURSIVE findStore(_)
findStore(list) ==
  IF list = <<>> THEN NULL
  ELSE IF Head(list).name = VECTOR_STORE_NAME THEN Head(list).id
  ELSE findStore(Tail(list))

\* The id the provider gives to a newly created store.
NewStoreId(strs) == Len(strs) + 1

\* inner catch of the upload / attach requests
uploadCatch(error) ==
  IF error.status = 401 THEN
    McpError("InvalidParams",
      <<"Your OpenAI API key does not have access to the Files API or Retrieval API.">>)
  ELSE McpError("InternalError",
      <<"Failed to process documentation: ">> \o ErrText(error))

\* outer catch of downloadAndProcessDocs
downloadAndProcessDocsCatch(error) ==
  IF error.cls = "McpError" THEN error
  ELSE McpError("InternalError",
      <<"Failed to process documentation: ">> \o ErrString(error))

\* Result: the error thrown (NoError on success), the requests issued, and
\* the set of stores that have the document attached.
downloadAndProcessDocs(vsid, att, plan) ==
  IF vsid = NULL THEN
    [err |-> McpError("InternalError", <<"Vector store ID not available">>),
     calls |-> <<>>, attached |-> att]
  ELSE IF plan["download"] # 200 THEN
    [err |-> downloadAndProcessDocsCatch(
               McpError("InternalError",
                 <<"Failed to download documentation: ">>
                   \o ErrText(AxiosError(plan["download"])))),
     calls |-> <<"download">>, attached |-> att]
  ELSE IF plan["upload"] # 200 THEN
    [err |-> downloadAndProcessDocsCatch(uploadCatch(AxiosError(plan["upload"]))),
     calls |-> <<"download", "upload">>, attached |-> att]
  ELSE IF plan["attach"] # 200 THEN
    [err |-> downloadAndProcessDocsCatch(uploadCatch(AxiosError(plan["attach"]))),
     calls |-> <<"download", "upload", "attach">>, attached |-> att]
  ELSE
    [err |-> NoError, calls |-> <<"download", "upload", "attach">>,
     attached |-> att \cup {vsid}]

\* initializeCatch with the wrapping of foreign errors left out
initializeCatchRethrow(error) == error

\* catch block of initialize
initializeCatch(error) ==
  IF error.cls = "McpError" THEN error
  ELSE McpError("InternalError",
      <<"Failed to initialize OpenAI vector store: ">> \o ErrString(error))

\* initializeShortCircuit with the guard left out
initializeNoShortCircuit(initd) == FALSE

\* `if (this.initialized) return;`
initializeShortCircuit(initd) == initd

\* The instance and provider state after one call of initialize().
\* o = [initialized, vectorStoreId], r = [stores, attached]; listShape says
\* whether the body of the list response has the `data` array.
InitResult(initd, vsid, strs, att, calls, err, created) ==
  [initialized |-> initd, vectorStoreId |-> vsid, stores |-> strs,
   attached |-> att, calls |-> calls, err |-> err, created |-> created]

\* lines 174-178: the store was created with id newId; populate it
storeCreated(newId, strs, d) ==
  InitResult(d.err = NoError, newId,
             <<[id |-> newId, name |-> VECTOR_STORE_NAME]>> \o strs,
             d.attached, <<"create">> \o d.calls, d.err, {newId})

\* lines 166-178: create a new vector store and populate it
createStore(vsid, strs, att, plan) ==
  IF plan["create"] # 200 THEN
    InitResult(FALSE, vsid, strs, att, <<"create">>,
               AxiosError(plan["create"]), {})
  ELSE storeCreated(NewStoreId(strs), strs,
                    downloadAndProcessDocs(NewStoreId(strs), att, plan))

\* adoptOrCreate that finds the store but does not assign this.vectorStoreId
adoptOrCreateNoAssign(vsid, strs, att, plan) ==
  IF findStore(strs) # NULL THEN
    InitResult(TRUE, vsid, strs, att, <<>>, NoError, {})
  ELSE createStore(vsid, strs, att, plan)

\* adoptOrCreate that creates a store without looking for an existing one
adoptOrCreateAlwaysCreates(vsid, strs, att, plan) ==
  createStore(vsid, strs, att, plan)

\* lines 160-179 of initialize: adopt the existing store or create one
adoptOrCreate(vsid, strs, att, plan) ==
  IF findStore(strs) # NULL THEN
    InitResult(TRUE, findStore(strs), strs, att, <<>>, NoError, {})
  ELSE createStore(vsid, strs, att, plan)

\* the result of initialize once the stores are listed: a is adoptOrCreate's
listedThen(a) ==
  InitResult(a.initialized, a.vectorStoreId, a.stores, a.attached,
             <<"models", "probe", "list">> \o a.calls,
             IF a.err = NoError THEN NoError ELSE initializeCatch(a.err),
             a.created)

initialize(initd, vsid, strs, att, plan, listShape) ==
  IF initializeShortCircuit(initd) THEN
    InitResult(initd, vsid, strs, att, <<>>, NoError, {})
  ELSE
    IF validateApiKey(plan) # NoError THEN
      InitResult(FALSE, vsid, strs, att, <<"models">>,
                 initializeCatch(validateApiKey(plan)), {})
    ELSE IF checkRetrievalApiAccess(plan) # NoError THEN
      InitResult(FALSE, vsid, strs, att, <<"models", "probe">>,
                 initializeCatch(checkRetrievalApiAccess(plan)), {})
    ELSE IF plan["list"] # 200 THEN
      InitResult(FALSE, vsid, strs, att, <<"models", "probe", "list">>,
                 initializeCatch(AxiosError(plan["list"])), {})
    ELSE IF listShape # "ok" THEN
      InitResult(FALSE, vsid, strs, att, <<"models", "probe", "list">>,
                 initializeCatch(TypeError(
                   <<"Cannot read properties of undefined (reading 'find')">>)), {})
    ELSE listedThen(adoptOrCreate(vsid, strs, att, plan))

\* --------------------------------------------------------------- JS values
\* A JavaScript value as the handlers see it: t is its type, v its value.
Undefined == [t |-> "undefined", v |-> 0]
Null == [t |-> "null", v |-> 0]
NaN == [t |-> "nan", v |-> 0]
Num(n) == [t |-> "num", v |-> n]
Str(s) == [t |-> "str", v |-> s]
Bool(b) == [t |-> "bool", v |-> b]

\* ToBoolean
Truthy(x) ==
  CASE x.t = "undefined" -> FALSE
    [] x.t = "null" -> FALSE
    [] x.t = "nan" -> FALSE
    [] x.t = "num" -> x.v # 0
    [] x.t = "str" -> x.v # ""
    [] x.t = "bool" -> x.v
    [] OTHER -> TRUE

\* Body of a search / list-files response (`response.data` of axios):
\* kind "null" = no JSON object, "nodata" = an object without `data`,
\* "list" = an object whose `data` is the array data.
NoBody == [kind |-> "none", data |-> <<>>]
NoSent == [store |-> NULL, query |-> Undefined, max_num_results |-> Undefined]

OpResult(i, calls, err, body, sent) ==
  [initialized |-> i.initialized, vectorStoreId |-> i.vectorStoreId,
   stores |-> i.stores, attached |-> i.attached, calls |-> calls,
   err |-> err, created |-> i.created, data |-> body, sent |-> sent]

\* searchCatch without the 404 branch
searchCatchNo404(error) ==
  IF error.status = 401 THEN McpError("InvalidParams", INVALID_KEY_MSG)
  ELSE McpError("InternalError", <<"Search failed: ">> \o ErrText(error))

\* catch block of search
searchCatch(error) ==
  IF error.status = 401 THEN McpError("InvalidParams", INVALID_KEY_MSG)
  ELSE IF error.status = 404 THEN
    McpError("InternalError",
      <<"Vector store not found. It may have been deleted or is not accessible.">>)
  ELSE McpError("InternalError", <<"Search failed: ">> \o ErrText(error))

\* catch block of listFiles
listFilesCatch(error) ==
  IF error.status = 401 THEN McpError("InvalidParams", INVALID_KEY_MSG)
  ELSE IF error.status = 404 THEN
    McpError("InternalError",
      <<"Vector store not found. It may have been deleted or is not accessible.">>)
  ELSE McpError("InternalError", <<"Failed to list files: ">> \o ErrText(error))

\* `if (!this.initialized) { await this.initialize(); }` of search / listFiles
ensureInitialized(initd, vsid, strs, att, plan, listShape) ==
  IF ~initd THEN initialize(initd, vsid, strs, att, plan, listShape)
  ELSE InitResult(initd, vsid, strs, att, <<>>, NoError, {})

\* `limit: number = 5`: the default applies to an undefined argument only
searchLimitParam(limit) == IF limit.t = "undefined" THEN Num(5) ELSE limit

\* search after its `await this.initialize()` with result i
searchInitialized(i, plan, query, limit, body) ==
  IF i.err # NoError THEN OpResult(i, i.calls, i.err, NoBody, NoSent)
  ELSE IF i.vectorStoreId = NULL THEN
    OpResult(i, i.calls,
             McpError("InternalError", <<"Vector store not initialized">>),
             NoBody, NoSent)
  ELSE IF plan["search"] # 200 THEN
    OpResult(i, i.calls \o <<"search">>,
             searchCatch(AxiosError(plan["search"])), NoBody, NoSent)
  ELSE
    OpResult(i, i.calls \o <<"search">>, NoError, body,
             [store |-> i.vectorStoreId, query |-> query,
              max_num_results |-> searchLimitParam(limit)])

search(initd, vsid, strs, att, plan, listShape, query, limit, body) ==
  searchInitialized(ensureInitialized(initd, vsid, strs, att, plan, listShape),
                    plan, query, limit, body)

\* listFiles after its `await this.initialize()` with result i
listFilesInitialized(i, plan, body) ==
  IF i.err # NoError THEN OpResult(i, i.calls, i.err, NoBody, NoSent)
  ELSE IF i.vectorStoreId = NULL THEN
    OpResult(i, i.calls,
             McpError("InternalError", <<"Vector store not initialized">>),
             NoBody, NoSent)
  ELSE IF plan["files"] # 200 THEN
    OpResult(i, i.calls \o <<"files">>,
             listFilesCatch(AxiosError(plan["files"])), NoBody, NoSent)
  ELSE
    OpResult(i, i.calls \o <<"files">>, NoError, body, NoSent)

listFiles(initd, vsid, strs, att, plan, listShape, body) ==
  listFilesInitialized(ensureInitialized(initd, vsid, strs, att, plan, listShape),
                       plan, body)

\* ---------------------------------------------------- Svelte5DocsServer
\* A tool response: content[0].text and the isError flag (FALSE = no flag).
NoResponse == [present |-> FALSE, text |-> <<>>, isError |-> FALSE]
TextResponse(text) == [present |-> TRUE, text |-> text, isError |-> FALSE]
ErrorResponse(text) == [present |-> TRUE, text |-> text, isError |-> TRUE]

NO_RESULTS_TEXT == <<"No results found in Svelte 5 documentation.">>
NO_SOURCES_TEXT == <<"No Svelte 5 documentation sources found.">>

\* array.join(sep) over pieces of text
RECURSIVE Join(_, _)
Join(parts, sep) ==
  IF parts = <<>> THEN <<>>
  ELSE IF Len(parts) = 1 THEN parts[1]
  ELSE parts[1] \o <<sep>> \o Join(Tail(parts), sep)

\* `${x}` for a JS value
JsText(x) ==
  CASE x.t = "str" -> <<x.v>>
    [] x.t = "num" -> <<ToString(x.v)>>
    [] x.t = "bool" -> <<IF x.v THEN "true" ELSE "false">>
    [] x.t = "nan" -> <<"NaN">>
    [] OTHER -> <<x.t>>

\* score.toFixed(2) for a score given in thousandths
toFixed2(ms) ==
  LET h == (ms + 5) \div 10 IN
  <<ToString(h \div 100), ".", ToString((h % 100) \div 10), ToString(h % 10)>>

\* `result.score ? result.score.toFixed(2) : 'N/A'`; scores are numbers in
\* thousandths.  err is the TypeError of calling toFixed on a non-number.
scoreText(score) ==
  IF ~Truthy(score) THEN [err |-> NoError, text |-> <<"N/A">>]
  ELSE IF score.t # "num" THEN
    [err |-> TypeError(<<"result.score.toFixed is not a function">>), text |-> <<>>]
  ELSE [err |-> NoError, text |-> toFixed2(score.v)]

\* the content of one search result (lines 186-193)
resultContent(result) ==
  IF result.shape = "content" THEN Join([i \in 1..Len(result.texts) |-> <<result.texts[i]>>], "\n")
  ELSE IF result.shape = "text" THEN <<result.texts[1]>>
  ELSE <<"JSON.stringify(result)">>

\* formatResult that labels a block with the zero-based index
formatResultZeroBased(result, index) ==
  IF result.shape = "null" THEN
    [err |-> TypeError(<<"Cannot read properties of null (reading 'content')">>),
     text |-> <<>>]
  ELSE IF scoreText(result.score).err # NoError THEN
    [err |-> scoreText(result.score).err, text |-> <<>>]
  ELSE [err |-> NoError,
        text |-> <<"Result ", ToString(index), " (Score: ">>
                   \o scoreText(result.score).text
                   \o <<"):\n">> \o resultContent(result) \o <<"\n">>]

\* the callback of searchResults.data.map (lines 184-197)
formatResult(result, index) ==
  IF result.shape = "null" THEN
    [err |-> TypeError(<<"Cannot read properties of null (reading 'content')">>),
     text |-> <<>>]
  ELSE
    LET sc == scoreText(result.score) IN
    IF sc.err # NoError THEN [err |-> sc.err, text |-> <<>>]
    ELSE [err |-> NoError,
          text |-> <<"Result ", ToString(index + 1), " (Score: ">> \o sc.text
                     \o <<"):\n">> \o resultContent(result) \o <<"\n">>]

\* the first error thrown while mapping, NoError when none
RECURSIVE firstError(_)
firstError(rs) ==
  IF rs = <<>> THEN NoError
  ELSE IF Head(rs).err # NoError THEN Head(rs).err
  ELSE firstError(Tail(rs))

\* the message built by the catch blocks of the two handlers
handlerErrorMessage(prefix, error) ==
  IF error.cls = "McpError" THEN <<prefix>> \o error.message
  ELSE <<prefix>> \o ErrText(error)

\* isEmptyData without the `!data` test
isEmptyDataLengthOnly(body) == body.kind = "list" /\ body.data = <<>>

\* `!searchResults.data || searchResults.data.length === 0`
isEmptyData(body) == body.kind = "nodata" \/ body.data = <<>>

\* lines 173-206: format the body of a successful search
formatSearch(query, body) ==
  IF body.kind = "null" THEN
    ErrorResponse(handlerErrorMessage("Search failed: ",
      TypeError(<<"Cannot read properties of null (reading 'data')">>)))
  ELSE IF isEmptyData(body) THEN TextResponse(NO_RESULTS_TEXT)
  ELSE
    LET rs == [i \in 1..Len(body.data) |-> formatResult(body.data[i], i - 1)]
        e == firstError(rs)
    IN IF e # NoError THEN
         ErrorResponse(handlerErrorMessage("Search failed: ", e))
       ELSE TextResponse(<<"Search results for \"", query.v, "\":\n\n">>
              \o Join([i \in 1..Len(rs) |-> rs[i].text], "\n---\n"))

\* `if (!args.query || typeof args.query !== 'string')`
queryInvalid(args) == ~Truthy(args.query) \/ args.query.t # "str"

\* handlerLimit with `??` in place of `||`
handlerLimitNullish(args) ==
  IF args.limit.t \in {"undefined", "null"} THEN Num(5) ELSE args.limit

\* `const limit = args.limit || 5`
handlerLimit(args) == IF Truthy(args.limit) THEN args.limit ELSE Num(5)

Unchanged(initd, vsid, strs, att) ==
  OpResult(InitResult(initd, vsid, strs, att, <<>>, NoError, {}),
           <<>>, NoError, NoBody, NoSent)

\* lines 169-231: the response to a search whose result is r
searchOutcome(query, r) ==
  [s |-> r, thrown |-> NoError,
   response |-> IF r.err # NoError
                THEN ErrorResponse(handlerErrorMessage("Search failed: ", r.err))
                ELSE formatSearch(query, r.data)]

\* args.present = FALSE: the request carried no arguments object.
handleSearchDocumentation(args, initd, vsid, strs, att, plan, listShape, body) ==
  IF ~args.present THEN
    [s |-> Unchanged(initd, vsid, strs, att),
     thrown |-> TypeError(<<"Cannot read properties of undefined (reading 'query')">>),
     response |-> NoResponse]
  ELSE IF queryInvalid(args) THEN
    [s |-> Unchanged(initd, vsid, strs, att),
     thrown |-> McpError("InvalidParams", <<"Query is required">>),
     response |-> NoResponse]
  ELSE searchOutcome(args.query,
         search(initd, vsid, strs, att, plan, listShape,
                args.query, handlerLimit(args), body))

\* the callback of files.data.map (lines 253-256)
formatFile(file) ==
  IF file.shape = "null" THEN
    [err |-> TypeError(<<"Cannot read properties of null (reading 'filename')">>),
     text |-> <<>>]
  ELSE
    [err |-> NoError,
     text |-> <<"- ">> \o JsText(IF Truthy(file.filename) THEN file.filename ELSE file.id)
                \o <<" (ID: ">> \o JsText(file.id) \o <<")">>]

formatFiles(body) ==
  IF body.kind = "null" THEN
    ErrorResponse(handlerErrorMessage("Failed to list sources: ",
      TypeError(<<"Cannot read properties of null (reading 'data')">>)))
  ELSE IF isEmptyData(body) THEN TextResponse(NO_SOURCES_TEXT)
  ELSE
    LET fs == [i \in 1..Len(body.data) |-> formatFile(body.data[i])]
        e == firstError(fs)
    IN IF e # NoError THEN
         ErrorResponse(handlerErrorMessage("Failed to list sources: ", e))
       ELSE TextResponse(<<"Svelte 5 Documentation Sources:\n\n">>
              \o Join([i \in 1..Len(fs) |-> fs[i].text], "\n"))

\* lines 238-290: the response to a listFiles whose result is r
listOutcome(r) ==
  [s |-> r, thrown |-> NoError,
   response |-> IF r.err # NoError
                THEN ErrorResponse(handlerErrorMessage("Failed to list sources: ", r.err))
                ELSE formatFiles(r.data)]

handleListSources(initd, vsid, strs, att, plan, listShape, body) ==
  listOutcome(listFiles(initd, vsid, strs, att, plan, listShape, body))

\* the tools each variant declares (setupToolHandlers)
Tools(v) ==
  IF v = "index" THEN {"search_svelte_docs", "list_docs_sources"}
  ELSE {"search_svelte_docs"}

\* callTool with the list_docs_sources case present in both variants
callToolListEverywhere(v, name, args, initd, vsid, strs, att, plan, listShape, body) ==
  IF name = "search_svelte_docs" THEN
    handleSearchDocumentation(args, initd, vsid, strs, att, plan, listShape, body)
  ELSE IF name = "list_docs_sources" THEN
    handleListSources(initd, vsid, strs, att, plan, listShape, body)
  ELSE
    [s |-> Unchanged(initd, vsid, strs, att),
     thrown |-> McpError("MethodNotFound", <<"Unknown tool: ", name>>),
     response |-> NoResponse]

\* the CallToolRequestSchema handler
callTool(v, name, args, initd, vsid, strs, att, plan, listShape, body) ==
  IF name = "search_svelte_docs" THEN
    handleSearchDocumentation(args, initd, vsid, strs, att, plan, listShape, body)
  ELSE IF name = "list_docs_sources" /\ v = "index" THEN
    handleListSources(initd, vsid, strs, att, plan, listShape, body)
  ELSE
    [s |-> Unchanged(initd, vsid, strs, att),
     thrown |-> McpError("MethodNotFound", <<"Unknown tool: ", name>>),
     response |-> NoResponse]

\* ------------------------------------------------------------------ inputs
NoArgs == [present |-> FALSE, query |-> Undefined, limit |-> Undefined]
Args(query, limit) == [present |-> TRUE, query |-> query, limit |-> limit]

\* values of `query` and `limit` a tool call can carry
Queries == {Undefined, Null, Str(""), Str("runes"), Num(42)}
Limits == {Undefined, Null, NaN, Num(0), Str(""), Bool(FALSE),
           Num(3), Num(-1), Str("3")}
ToolArgs == {NoArgs} \cup {Args(q, l) : q \in Queries, l \in Limits}
ToolNames == {"search_svelte_docs", "list_docs_sources", "unknown_tool"}

Result(shape, texts, score) == [shape |-> shape, texts |-> texts, score |-> score]
ListBody(data) == [kind |-> "list", data |-> data]

\* bodies of the provider's answer to a search request
SearchBodies ==
  { [kind |-> "null", data |-> <<>>],
    [kind |-> "nodata", data |-> <<>>],
    ListBody(<<>>),
    ListBody(<<Result("content", <<"runes are", "signals">>, Num(873))>>),
    ListBody(<<Result("content", <<"a">>, Num(500)),
               Result("text", <<"b">>, Num(912)),
               Result("other", <<>>, Undefined)>>),
    ListBody(<<Result("text", <<"c">>, Num(0)),
               Result("content", <<"d">>, Num(1000))>>),
    ListBody(<<Result("text", <<"e">>, Num(700)), Result("null", <<>>, Undefined)>>),
    ListBody(<<Result("text", <<"f">>, Str("0.9"))>>) }

File(filename, id) == [shape |-> "file", filename |-> filename, id |-> id]

\* bodies of the provider's answer to a list-files request
FileBodies ==
  { [kind |-> "null", data |-> <<>>],
    [kind |-> "nodata", data |-> <<>>],
    ListBody(<<>>),
    ListBody(<<File(Str("svelte5-docs.txt"), Str("file-1"))>>),
    ListBody(<<File(Undefined, Str("file-1")), File(Str("x.txt"), Str("file-2"))>>),
    ListBody(<<[shape |-> "null", filename |-> Undefined, id |-> Undefined]>>) }

\* ------------------------------------------------------------------- state
VARIABLES
  variant,        \* "script" (test-retrieval.js), "index" or "stderr" server
  phase,          \* "constructed", "serving", "exited"
  initialized,    \* OpenAIRetrieval.initialized
  vectorStoreId,  \* OpenAIRetrieval.vectorStoreId
  stores,         \* provider: the vector stores, as the list request returns them
  attached,       \* provider: ids of the stores that hold the uploaded document
  calls,          \* requests issued by the most recent operation, in order
  createIssued,   \* number of create-store requests issued so far
  createdIds,     \* ids of the stores this instance created
  last,           \* the most recent operation and its outcome
  nOps,           \* operations performed
  exitCode,       \* the code the process exited with, -1 while it runs
  written,        \* what the most recent step wrote: <<[stream, text], ...>>
  customDocsUrl,  \* CUSTOM_DOCS_URL as passed to the constructor, "" if unset
  downloadUrl,    \* URL of the download request of the most recent operation
  ingested        \* provider: ids of the stores whose file is fully ingested

vars == <<variant, phase, initialized, vectorStoreId, stores, attached,
          calls, createIssued, createdIds, last, nOps, exitCode, written,
          customDocsUrl, downloadUrl, ingested>>

Count(seq, x) == Cardinality({i \in 1..Len(seq) : seq[i] = x})

\* What is remembered of the most recent operation:
\*   op        its name ("initialize", "search", "listFiles", "run", or a tool name)
\*   wasReady  initialized when it began;  before  the instance and provider then
\*   listed    TRUE when its list-stores request was answered with a usable list
\*   failStep  the request that was answered with a failure (outcome), or "none"
\*   thrown    the error thrown out of it (NoError when it returned)
\*   response  the tool response returned;  args / sent / body as named
NoOp ==
  [op |-> "none", wasReady |-> FALSE, listed |-> FALSE,
   before |-> [vectorStoreId |-> NULL, stores |-> <<>>, attached |-> {}],
   failStep |-> "none", outcome |-> 200, thrown |-> NoError,
   response |-> NoResponse, args |-> NoArgs, sent |-> NoSent, body |-> NoBody]

Record(op, r, thrown, response, args, sc) ==
  LET failStep == sc.failStep
      o == sc.o
      listShape == sc.listShape
      hit == failStep # "none" /\ Count(r.calls, failStep) > 0
  IN
  [op |-> op, wasReady |-> initialized,
   listed |-> (Count(r.calls, "list") > 0 /\ listShape = "ok"
               /\ ~(hit /\ failStep = "list")),
   before |-> [vectorStoreId |-> vectorStoreId, stores |-> stores,
               attached |-> attached],
   failStep |-> IF hit THEN failStep ELSE "none",
   outcome |-> IF hit THEN o ELSE 200,
   thrown |-> thrown, response |-> response, args |-> args,
   sent |-> r.sent, body |-> r.data]

\* the effect of an operation with result r on the instance and the provider
Apply(r) ==
  /\ initialized' = r.initialized
  /\ vectorStoreId' = r.vectorStoreId
  /\ stores' = r.stores
  /\ attached' = r.attached
  /\ calls' = r.calls
  /\ createIssued' = createIssued + Count(r.calls, "create")
  /\ createdIds' = createdIds \cup r.created
  /\ nOps' = nOps + 1

\* One scenario answers the requests of one operation: every request succeeds
\* except failStep (answered with outcome o); listShape says whether the list
\* response carries the `data` array; body answers the search / files request.
Scenario(failStep, o, listShape, body) ==
  [failStep |-> failStep, o |-> o, listShape |-> listShape, body |-> body]

InitSteps == {"models", "probe", "list", "create", "download", "upload", "attach"}

\* The scenarios in which initialize() fails.  A Ready instance issues none of
\* these requests, so their answers make no difference then.
InitFailScenarios ==
  IF initialized THEN {}
  ELSE {Scenario(s, o, "ok", NoBody) : s \in InitSteps, o \in Failures}
       \cup {Scenario("none", 200, "nodata", NoBody)}

Quiet == Scenario("none", 200, "ok", NoBody)

\* The scenarios of an operation that ends with the request finalStep.
Scenarios(finalStep, bodies) ==
  InitFailScenarios
    \cup {Scenario(finalStep, o, "ok", NoBody) : o \in Failures}
    \cup {Scenario("none", 200, "ok", b) : b \in bodies}

\* ---------------------------------------------------------------- logging
Line(stream, text) == [stream |-> stream, text |-> text]

\* log() and logError() of both files: process.stderr.write
log(text) == Line("stderr", text)

\* console.log / console.info / console.error as the variant v has them: the
\* stderr variant replaces all three by writes to process.stderr (lines
\* 338-350); the others keep Node's (console.log and console.info to stdout).
console(v, method, text) ==
  IF v = "stderr" THEN Line("stderr", text)
  ELSE IF method = "error" THEN Line("stderr", text)
  ELSE Line("stdout", text)

\* what is written while the module loads, before the server is constructed
startupBanner(v, custom) ==
  IF v = "index" THEN
    <<console(v, "log", "Starting MCP-Svelte5-Docs server...")>>
      \o (IF custom # "" THEN <<console(v, "log", "Using custom documentation URL")>>
          ELSE <<>>)
  ELSE IF v = "stderr" THEN <<log("Starting MCP-Svelte-Docs server...")>>
  ELSE <<>>

\* The URL downloadAndProcessDocs requests.  The constructor takes the API
\* key only, so a second argument passed by a caller is not used.
docsUrl(custom) == DOCS_URL

Has(r, step) == Count(r.calls, step) > 0

\* the log() / logError() lines of OpenAIRetrieval during a call with result r
retrievalLog(r, custom) ==
  (IF Has(r, "list") /\ ~Has(r, "create") /\ r.err = NoError /\ ~Has(r, "search")
      /\ ~Has(r, "files")
   THEN <<log("Found existing vector store")>> ELSE <<>>)
  \o (IF Has(r, "create") THEN <<log("Creating new vector store")>> ELSE <<>>)
  \o (IF Has(r, "download") THEN <<log("Downloading documentation from " ),
                                   log(docsUrl(custom))>> ELSE <<>>)
  \o (IF Has(r, "upload") THEN <<log("Uploading documentation to OpenAI")>> ELSE <<>>)
  \o (IF Has(r, "attach") /\ r.err = NoError
      THEN <<log("Documentation successfully added to vector store")>> ELSE <<>>)
  \o (IF r.err # NoError THEN <<log("ERROR")>> ELSE <<>>)

\* the lines run() and init() write around initialize() with result r
runLog(v, r) ==
  IF r.err = NoError THEN
    << IF v = "stderr" THEN log("OpenAI Retrieval initialized successfully")
       ELSE console(v, "log", "OpenAI Retrieval initialized successfully"),
       IF v = "stderr" THEN log("Svelte Docs MCP server running on stdio")
       ELSE console(v, "log", "Svelte5 Docs MCP server running on stdio") >>
  ELSE
    << IF v = "stderr" THEN log("ERROR: Failed to initialize OpenAI Retrieval:")
       ELSE console(v, "error", "Failed to initialize OpenAI Retrieval:"),
       IF v = "stderr" THEN log("ERROR: Failed to initialize server:")
       ELSE console(v, "error", "Failed to initialize server:") >>

\* the line the catch block of a tool handler writes
handlerLog(v, name, h) ==
  IF h.response.present /\ h.response.isError THEN
    << IF v = "stderr" THEN log("ERROR: Search error:")
       ELSE console(v, "error",
              IF name = "search_svelte_docs" THEN "Search error:"
              ELSE "List sources error:") >>
  ELSE <<>>

\* the effect of an operation with result r on what is observed of it
Observe(r, lines) ==
  /\ written' = lines
  /\ downloadUrl' = IF Has(r, "download") THEN docsUrl(customDocsUrl) ELSE ""
  /\ UNCHANGED <<customDocsUrl, ingested>>

Init ==
  /\ variant \in {"script", "index", "stderr"}
  /\ phase = "constructed"
  /\ initialized = FALSE
  /\ vectorStoreId = NULL
  /\ stores \in InitialStores
  /\ attached = {}
  /\ calls = <<>>
  /\ createIssued = 0
  /\ createdIds = {}
  /\ last = NoOp
  /\ nOps = 0
  /\ exitCode = -1
  /\ customDocsUrl \in IF variant = "stderr" THEN {""}
                       ELSE {"", "https://example.com/docs.txt"}
  /\ written = startupBanner(variant, customDocsUrl)
  /\ downloadUrl = ""
  /\ ingested = {}

\* the result of a bare initialize() call, in the shape of the other calls
initializeCall(i) == OpResult(i, i.calls, i.err, NoBody, NoSent)

\* retrieval.initialize() called directly (test-retrieval.js, line 26)
CallInitialize ==
  /\ variant = "script"
  /\ nOps < MaxOps
  /\ \E sc \in InitFailScenarios \cup {Quiet} :
     \E r \in {initializeCall(initialize(initialized, vectorStoreId, stores,
                 attached, Plan(sc.failStep, sc.o), sc.listShape))} :
       /\ Apply(r)
       /\ Observe(r, retrievalLog(r, customDocsUrl))
       /\ last' = Record("initialize", r, r.err, NoResponse, NoArgs, sc)
  /\ UNCHANGED <<variant, phase, exitCode>>

\* retrieval.search(query, 3) called directly (test-retrieval.js, line 37)
CallSearch ==
  /\ variant = "script"
  /\ nOps < MaxOps
  /\ \E sc \in Scenarios("search", SearchBodies), limit \in {Undefined, Num(3)} :
     \E r \in {search(initialized, vectorStoreId, stores, attached,
                 Plan(sc.failStep, sc.o), sc.listShape,
                 Str("What are runes in Svelte 5?"), limit, sc.body)} :
       /\ Apply(r)
       /\ Observe(r, retrievalLog(r, customDocsUrl))
       /\ last' = Record("search", r, r.err, NoResponse,
                         Args(Str("What are runes in Svelte 5?"), limit), sc)
  /\ UNCHANGED <<variant, phase, exitCode>>

\* retrieval.listFiles() called directly (test-retrieval.js, line 31)
CallListFiles ==
  /\ variant = "script"
  /\ nOps < MaxOps
  /\ \E sc \in Scenarios("files", FileBodies) :
     \E r \in {listFiles(initialized, vectorStoreId, stores, attached,
                 Plan(sc.failStep, sc.o), sc.listShape, sc.body)} :
       /\ Apply(r)
       /\ Observe(r, retrievalLog(r, customDocsUrl))
       /\ last' = Record("listFiles", r, r.err, NoResponse, NoArgs, sc)
  /\ UNCHANGED <<variant, phase, exitCode>>

\* run() with the handlers registered although init() failed
runPhaseAlwaysServes(err) == "serving"

\* run(): `await this.init(); ... connect(transport)` or, in the catch
\* block, `process.exit(1)`
runPhase(err) == IF err = NoError THEN "serving" ELSE "exited"

\* Svelte5DocsServer.run(): init() initializes the retrieval and registers
\* the handlers, then the transport is connected; a failure exits the process.
Run ==
  /\ variant \in {"index", "stderr"}
  /\ phase = "constructed"
  /\ nOps < MaxOps
  /\ \E sc \in InitFailScenarios \cup {Quiet} :
     \E r \in {initializeCall(initialize(initialized, vectorStoreId, stores,
                 attached, Plan(sc.failStep, sc.o), sc.listShape))} :
       /\ Apply(r)
       /\ Observe(r, retrievalLog(r, customDocsUrl) \o runLog(variant, r))
       /\ phase' = runPhase(r.err)
       /\ exitCode' = IF runPhase(r.err) = "exited" THEN 1 ELSE exitCode
       /\ last' = Record("run", r, NoError, NoResponse, NoArgs, sc)
  /\ UNCHANGED variant

\* The scenarios of a tool call: a call that is rejected before it reaches the
\* retrieval has no request to answer.
ToolScenarios(v, name, args) ==
  IF name = "search_svelte_docs" THEN
    IF args.present /\ ~queryInvalid(args)
    THEN Scenarios("search", SearchBodies) ELSE {Quiet}
  ELSE IF name = "list_docs_sources" /\ v = "index"
    THEN Scenarios("files", FileBodies)
  ELSE {Quiet}

\* a tools/call request handled by the running server
CallTool ==
  /\ phase = "serving"
  /\ nOps < MaxOps
  /\ \E name \in ToolNames :
     \E args \in IF name = "search_svelte_docs" THEN ToolArgs ELSE {NoArgs} :
     \E sc \in ToolScenarios(variant, name, args) :
     \E h \in {callTool(variant, name, args, initialized, vectorStoreId,
                 stores, attached, Plan(sc.failStep, sc.o),
                 sc.listShape, sc.body)} :
       /\ Apply(h.s)
       /\ Observe(h.s, retrievalLog(h.s, customDocsUrl)
                         \o handlerLog(variant, name, h))
       /\ last' = Record(name, h.s, h.thrown, h.response, args, sc)
  /\ UNCHANGED <<variant, phase, exitCode>>

\* SIGINT: `await this.cleanup(); process.exit(0)`
Sigint ==
  /\ variant \in {"index", "stderr"}
  /\ phase \in {"constructed", "serving"}
  /\ phase' = "exited"
  /\ exitCode' = 0
  /\ written' = <<>>
  /\ UNCHANGED <<variant, initialized, vectorStoreId, stores, attached, calls,
                 createIssued, createdIds, last, nOps, customDocsUrl,
                 downloadUrl, ingested>>

\* The provider finishes ingesting the file attached to a store.  Attaching
\* a file only starts the ingestion; the provider completes it on its own.
IngestionCompletes ==
  /\ \E id \in attached \ ingested : ingested' = ingested \cup {id}
  /\ UNCHANGED <<variant, phase, initialized, vectorStoreId, stores, attached,
                 calls, createIssued, createdIds, last, nOps, exitCode,
                 written, customDocsUrl, downloadUrl>>

Next ==
  \/ CallInitialize
  \/ CallSearch
  \/ CallListFiles
  \/ Run
  \/ CallTool
  \/ Sigint
  \/ IngestionCompletes

Spec == Init /\ [][Next]_vars
\* ------------------------------------------------------------------ claims
RetrievalOps == {"initialize", "search", "listFiles"}
HasNamedStore(list) == \E i \in 1..Len(list) : list[i].name = "svelte5-documentation"

\* C1: when the instance created the vector store itself, it is Ready only
\* if the document has been downloaded and uploaded into that store; this is
\* to hold over any sequence of calls, retries after a partial failure
\* included.
C1_ReadyOnlyAfterPopulation ==
  (initialized /\ vectorStoreId \in createdIds) => vectorStoreId \in attached

\* C2: whenever a request of initialize() is answered with a failure, the
\* call throws an McpError and leaves the instance Uninitialized, and the
\* next call that initializes begins again with the key validation request.
C2_FailedInitThrowsAndStaysUninitialized ==
  [][ /\ (last'.op \in RetrievalOps /\ last'.failStep \in InitSteps)
          => (last'.thrown.cls = "McpError" /\ ~initialized')
      /\ (last.op \in RetrievalOps /\ last.failStep \in InitSteps
            /\ last'.op \in RetrievalOps)
          => (Len(calls') > 0 /\ calls'[1] = "models") ]_vars

C2_Witness ==
  /\ last.op = "initialize"
  /\ last.failStep = "attach"
  /\ last.thrown.cls = "McpError"
  /\ ~initialized
  /\ vectorStoreId # NULL

\* C3: on a Ready instance initialize() issues no request, throws nothing
\* and changes neither the instance nor the provider; search() issues
\* exactly the search request and listFiles() exactly the files request.
C3_InitializeIdempotent ==
  [][ (initialized /\ nOps' = nOps + 1) =>
        /\ last'.op = "initialize" =>
             /\ calls' = <<>>
             /\ last'.thrown = NoError
             /\ UNCHANGED <<initialized, vectorStoreId, stores, attached>>
        /\ last'.op = "search" => calls' = <<"search">>
        /\ last'.op = "listFiles" => calls' = <<"files">> ]_vars

C3_Witness ==
  /\ last.op = "initialize"
  /\ last.wasReady
  /\ initialized
  /\ calls = <<>>

\* C4: when the list of vector stores that initialize() receives contains a
\* store named 'svelte5-documentation', no create, download, upload or
\* attach request is issued, vectorStoreId is the id of a listed store of
\* that name, and the instance is Ready.
C4_ExistingStoreAdopted ==
  (last.op \in RetrievalOps \cup {"run"} /\ last.listed
     /\ HasNamedStore(last.before.stores))
  => /\ \A i \in 1..Len(calls) :
          calls[i] \notin {"create", "download", "upload", "attach"}
     /\ \E i \in 1..Len(last.before.stores) :
          /\ last.before.stores[i].name = "svelte5-documentation"
          /\ last.before.stores[i].id = vectorStoreId
     /\ initialized
     /\ stores = last.before.stores

C4_Witness ==
  /\ last.op = "initialize"
  /\ last.listed
  /\ Len(last.before.stores) = 2
  /\ last.before.stores[1].name = "other-store"
  /\ vectorStoreId = 2
  /\ initialized

\* C5 (as stated): the create-store request is issued at most once.
C5_CreateIssuedAtMostOnce == createIssued <= 1

\* C5 (amended): one call issues at most one create-store request, the
\* instance creates at most one store, and once a create-store request has
\* succeeded no later call issues another one.
C5_CreateSucceedsAtMostOnce ==
  [][ /\ Count(calls', "create") <= 1
      /\ Cardinality(createdIds') <= 1
      /\ createdIds # {} => createIssued' = createIssued ]_vars

C5_Witness ==
  /\ createIssued = 2
  /\ Cardinality(createdIds) = 1
  /\ last.wasReady
  /\ initialized

\* C6: a search_svelte_docs request whose query is missing, empty or not a
\* string (a request without arguments included) fails with an McpError of
\* code InvalidParams, with no request issued.
C6_InvalidQueryIsInvalidParams ==
  (last.op = "search_svelte_docs"
     /\ (~last.args.present \/ last.args.query.t # "str" \/ last.args.query = Str("")))
  => /\ last.thrown.cls = "McpError"
     /\ last.thrown.code = "InvalidParams"
     /\ calls = <<>>

\* C7: the max_num_results of the search request of search_svelte_docs is 5
\* when limit is omitted, zero or otherwise falsy, and the caller's limit
\* itself in every other case.
C7_LimitDefaultsToFive ==
  (last.op = "search_svelte_docs" /\ last.sent # NoSent)
  => last.sent.max_num_results =
       IF last.args.limit \in {Undefined, Null, NaN, Num(0), Str(""), Bool(FALSE)}
       THEN Num(5) ELSE last.args.limit

C7_Witness ==
  /\ last.op = "search_svelte_docs"
  /\ last.args.limit = Num(0)
  /\ last.sent.max_num_results = Num(5)
  /\ calls = <<"search">>

\* C8: a call of search_svelte_docs or list_docs_sources either throws the
\* InvalidParams error for a malformed query or returns a response; every
\* other failure is returned as a response with a text and isError set.
C8_NeverThrowsPastBoundary ==
  (last.op \in Tools(variant))
  => \/ /\ last.thrown.cls = "McpError"
        /\ last.thrown.code = "InvalidParams"
     \/ /\ last.thrown = NoError
        /\ last.response.present
        /\ last.response.text # <<>>
        /\ last.failStep # "none" => last.response.isError

\* C9: when the provider's answer has no results (data absent or empty),
\* search_svelte_docs returns the fixed no-results text and list_docs_sources
\* the fixed no-sources text, as a response without the error flag.
C9_ZeroResultsFixedText ==
  (last.body.kind = "nodata" \/ (last.body.kind = "list" /\ last.body.data = <<>>))
  => /\ last.op = "search_svelte_docs" =>
          /\ last.thrown = NoError
          /\ last.response =
               TextResponse(<<"No results found in Svelte 5 documentation.">>)
     /\ last.op = "list_docs_sources" =>
          /\ last.thrown = NoError
          /\ last.response =
               TextResponse(<<"No Svelte 5 documentation sources found.">>)

C9_Witness ==
  /\ last.op = "list_docs_sources"
  /\ last.body.kind = "nodata"
  /\ last.response.text = <<"No Svelte 5 documentation sources found.">>
  /\ ~last.response.isError

\* C10: a 401 answer to any provider request (key validation, access probe,
\* list stores, create store, file upload, attach, search, list files) gives
\* an error whose message is the invalid-API-key message.
C10_Any401IsInvalidKey ==
  (last.op \in RetrievalOps /\ last.outcome = 401
     /\ last.failStep \in {"models", "probe", "list", "create", "upload",
                           "attach", "search", "files"})
  => last.thrown.message =
       <<"Invalid OpenAI API key. Please check your API key and try again.">>
\* C11: a 403 answer to the key validation, access probe, search or
\* list-files request gives an error whose message is an
\* insufficient-permission message, not the generic fallback.
C11_Any403IsPermissionMessage ==
  (last.op \in RetrievalOps /\ last.outcome = 403
     /\ last.failStep \in {"models", "probe", "search", "files"})
  => last.thrown.message \in
       { <<"Your OpenAI account does not have permission to use this API. Please check your account permissions.">>,
         <<"Your OpenAI account does not have permission to use the Retrieval API. This feature may require a specific account tier or beta access.">> }

\* the last n fragments of a text
Suffix(text, n) == SubSeq(text, Len(text) - n + 1, Len(text))

\* C12: a 404 gives the vector-store-not-found message when it answers the
\* search or list-files request and the endpoint-not-found message when it
\* answers the access probe; a failure that is not a 401, 403 or 404 gives a
\* generic message: an '<operation> failed' prefix followed by the message
\* of the underlying error.
C12_NotFoundAndGenericMessages ==
  (last.op \in RetrievalOps /\ last.failStep # "none")
  => /\ (last.outcome = 404 /\ last.failStep \in {"search", "files"})
          => last.thrown.message =
               <<"Vector store not found. It may have been deleted or is not accessible.">>
     /\ (last.outcome = 404 /\ last.failStep = "probe")
          => last.thrown.message =
               <<"The Retrieval API endpoint was not found. This feature may not be available yet for your account or is in beta.">>
     /\ last.outcome \notin {401, 403, 404}
          => LET underlying == IF last.failStep = "models"
                               THEN APIError(last.outcome).message
                               ELSE AxiosError(last.outcome).message
                 msg == last.thrown.message
             IN /\ Len(msg) > Len(underlying)
                /\ Suffix(msg, Len(underlying)) = underlying
                /\ msg[1] \in {"Failed to validate OpenAI API key: ",
                               "Failed to access Retrieval API: ",
                               "Failed to initialize OpenAI vector store: ",
                               "Failed to download documentation: ",
                               "Failed to process documentation: ",
                               "Search failed: ",
                               "Failed to list files: "}

C12_Witness ==
  /\ last.op = "search"
  /\ last.failStep = "search"
  /\ last.outcome = 404
  /\ last.thrown.message =
       <<"Vector store not found. It may have been deleted or is not accessible.">>

\* C13: a tool call whose name the running variant does not declare fails
\* with a MethodNotFound McpError, issues no request and leaves the instance
\* and the provider as they were.
C13_UnknownToolIsMethodNotFound ==
  (\/ (variant = "index" /\ last.op = "unknown_tool")
   \/ (variant = "stderr" /\ last.op \in {"unknown_tool", "list_docs_sources"}))
  => /\ last.thrown.cls = "McpError"
     /\ last.thrown.code = "MethodNotFound"
     /\ ~last.response.present
     /\ calls = <<>>
     /\ initialized = last.wasReady
     /\ vectorStoreId = last.before.vectorStoreId
     /\ stores = last.before.stores
     /\ attached = last.before.attached

C13_Witness ==
  /\ variant = "stderr"
  /\ last.op = "list_docs_sources"
  /\ last.thrown.code = "MethodNotFound"
  /\ calls = <<>>
Servers == {"index", "stderr"}

\* C14: when the initialization of the server fails, the process stays
\* running and usable, so that the next tool call can retry initialization.
C14_InitFailureKeepsServerRunning ==
  (variant \in Servers /\ last.op = "run" /\ ~initialized)
  => (phase # "exited" /\ exitCode = -1)

\* C15: in every run of a server variant, every diagnostic line is written
\* to the error stream and none to standard output.
C15_NoDiagnosticsOnStdout ==
  variant \in Servers
  => \A i \in 1..Len(written) : written[i].stream = "stderr"

\* C16: when the document is downloaded, it is requested from the override
\* URL passed to the constructor when one was given, and from the default
\* URL only when none was given.
C16_DownloadUsesConfiguredUrl ==
  downloadUrl # ""
  => downloadUrl = IF customDocsUrl # "" THEN customDocsUrl
                   ELSE "https://svelte.dev/llms-full.txt"

\* C17: a call that uploaded the document and left the instance Ready did
\* so only once the provider had completed the ingestion of the file.
C17_ReadyOnlyAfterIngestion ==
  (Count(calls, "attach") > 0 /\ last.failStep = "none" /\ initialized
     /\ vectorStoreId \in attached)
  => vectorStoreId \in ingested

\* positions of the block labels in a response text, and the n-th of them
LabelPositions(text) == {i \in 1..Len(text) : text[i] = "Result "}
LabelPosition(text, n) ==
  CHOOSE p \in LabelPositions(text) :
    Cardinality({q \in LabelPositions(text) : q < p}) = n - 1

\* a result as the data model has it: an object whose score is a number or absent
WellFormed(result) == result.shape # "null" /\ result.score.t \in {"num", "undefined"}

\* C18: for an answer with k >= 1 results, search_svelte_docs returns a
\* non-error response with exactly k blocks, the n-th labelled
\* 'Result n (Score: ...)' and carrying the content of the provider's n-th
\* result; so an answer of at most limit results gives at most limit blocks.
C18_OneLabelledBlockPerResult ==
  (last.op = "search_svelte_docs" /\ last.body.kind = "list"
     /\ Len(last.body.data) >= 1
     /\ \A n \in 1..Len(last.body.data) : WellFormed(last.body.data[n]))
  => LET text == last.response.text
         data == last.body.data
         k == Len(data)
         limit == last.sent.max_num_results
     IN /\ last.thrown = NoError
        /\ last.response.present /\ ~last.response.isError
        /\ Cardinality(LabelPositions(text)) = k
        /\ (limit.t = "num" /\ k <= limit.v)
             => Cardinality(LabelPositions(text)) <= limit.v
        /\ \A n \in 1..k :
             LET p == LabelPosition(text, n)
                 end == IF n < k THEN LabelPosition(text, n + 1) ELSE Len(text) + 1
             IN /\ text[p + 1] = ToString(n)
                /\ text[p + 2] = " (Score: "
                /\ \E j \in (p + 3)..(end - 1) : text[j] = "):\n"
                /\ data[n].texts # <<>>
                     => \E j \in (p + 3)..(end - 1) : text[j] = data[n].texts[1]

C18_Witness ==
  /\ last.op = "search_svelte_docs"
  /\ last.args.limit = Num(3)
  /\ Len(last.body.data) = 3
  /\ Cardinality(LabelPositions(last.response.text)) = 3
  /\ ~last.response.isError

\* C19: in both server variants a tool call is handled only by a process
\* whose retrieval instance is Ready; when the startup initialization fails
\* the process exits with code 1 and has served no request.
C19_ServesOnlyWhenReady ==
  variant \in Servers
  => /\ phase = "serving" => initialized
     /\ last.op \in {"search_svelte_docs", "list_docs_sources", "unknown_tool"}
          => last.wasReady
     /\ (last.op = "run" /\ ~initialized)
          => (phase = "exited" /\ exitCode = 1 /\ nOps = 1)
     /\ exitCode = 1 => (last.op = "run" /\ ~initialized)

C19_Witness ==
  /\ variant = "stderr"
  /\ phase = "exited"
  /\ exitCode = 1
  /\ last.op = "run"
  /\ last.failStep = "download"
====
